---- MODULE Spec2Model ----
(***************************************************************************)
(* git2parquet: writeGitLogParquet and its helpers readGitLogWithDiffs and *)
(* toColumnData (src/index.js).                                            *)
(*                                                                         *)
(* A JavaScript string is a sequence of tokens.  A token is either one of  *)
(* the whitespace characters TAB and NL, or a run of characters that holds *)
(* no whitespace ("c1", "Ann", ...).  split, join and trim work on these   *)
(* sequences exactly as String.prototype.split/join/trim work on           *)
(* characters.                                                             *)
(***************************************************************************)
EXTENDS Integers, Sequences, FiniteSets, TLC

\* ---------------------------------------------------------------- bounds
MaxCommits == 2
MaxSubjLen == 2

\* ------------------------------------------------------------ characters
TAB == "<TAB>"
NL == "<NL>"
Whitespace == {TAB, NL}

\* ------------------------------------------------------- string helpers
RECURSIVE TrimStart(_)
TrimStart(s) ==
  IF s = <<>> THEN <<>>
  ELSE IF Head(s) \in Whitespace THEN TrimStart(Tail(s))
  ELSE s

RECURSIVE TrimEnd(_)
TrimEnd(s) ==
  IF s = <<>> THEN <<>>
  ELSE IF s[Len(s)] \in Whitespace THEN TrimEnd(SubSeq(s, 1, Len(s) - 1))
  ELSE s

\* String.prototype.trim
Trim(s) == TrimEnd(TrimStart(s))

\* index of the first occurrence of sep in s at or after i, 0 when absent
RECURSIVE IndexOf(_, _, _)
IndexOf(s, sep, i) ==
  IF i > Len(s) THEN 0
  ELSE IF s[i] = sep THEN i
  ELSE IndexOf(s, sep, i + 1)

\* String.prototype.split(sep): "".split(sep) is [""]
RECURSIVE Split(_, _)
Split(s, sep) ==
  LET k == IndexOf(s, sep, 1) IN
    IF k = 0 THEN <<s>>
    ELSE <<SubSeq(s, 1, k - 1)>> \o Split(SubSeq(s, k + 1, Len(s)), sep)

\* Array.prototype.join(sep): [].join(sep) is ""
RECURSIVE Join(_, _)
Join(parts, sep) ==
  IF parts = <<>> THEN <<>>
  ELSE IF Len(parts) = 1 THEN parts[1]
  ELSE parts[1] \o <<sep>> \o Join(Tail(parts), sep)

\* ------------------------------------------------------------ JS values
Undefined == [t |-> "undefined", v |-> "undefined"]
Null == [t |-> "null", v |-> "null"]
Num(x) == [t |-> "number", v |-> x]
Bool(x) == [t |-> "boolean", v |-> x]
Str(x) == [t |-> "string", v |-> x]
\* an object literal with (at most) the filename property
Obj(f) == [t |-> "object", v |-> "{}", filename |-> f]

Typeof(x) == IF x.t = "null" THEN "object" ELSE x.t

Truthy(x) ==
  ~ \/ x.t \in {"undefined", "null"}
    \/ (x.t = "number" /\ x.v = "0")
    \/ (x.t = "boolean" /\ x.v = "false")
    \/ (x.t = "string" /\ x.v = "")

Nullish(x) == x.t \in {"undefined", "null"}

\* opts.filename: a property read on a primitive yields undefined
\* (the read on null throws, see ValidateOptions)
FilenameOf(o) == IF o.t = "object" THEN o.filename ELSE Undefined

\* ---------------------------------------------------------------- errors
NoError == [kind |-> "", detail |-> <<>>]
Err(k, d) == [kind |-> k, detail |-> d]
NoResult == [commitCount |-> -1, filename |-> <<>>]

\* ------------------------------------------------- the environment: git
\* commit ids in enumeration order (position i of the log has Hashes[i])
Hashes == <<"c1", "c2", "c3", "c4">>
ValidDate == <<"2024-01-01T00:00:00+00:00">>
Dates == {ValidDate, <<"not-a-date">>}

\* %s: git strips trailing whitespace from the subject and may leave it
\* empty; leading and embedded tabs are kept
RECURSIVE SeqsOver(_, _)
SeqsOver(S, n) ==
  IF n = 0 THEN {<<>>}
  ELSE LET shorter == SeqsOver(S, n - 1) IN
    shorter \cup {Append(s, x) : s \in {q \in shorter : Len(q) = n - 1}, x \in S}

Subjects ==
  {s \in SeqsOver({"fix", TAB}, MaxSubjLen) : s = <<>> \/ s[Len(s)] \notin Whitespace}

HasTab(s) == \E k \in 1..Len(s) : s[k] = TAB

\* what one line of the log carries: nf is the number of fields on the line
\* (5 for a well-formed line, fewer for a malformed one)
CommitsAt(i) ==
  {[hash |-> <<Hashes[i]>>, authorName |-> <<"Ann">>, authorEmail |-> <<"ann@x.org">>,
    date |-> d, subject |-> s, nf |-> 5] : d \in Dates, s \in Subjects}
  \cup
  {[hash |-> <<Hashes[i]>>, authorName |-> <<"Ann">>, authorEmail |-> <<"ann@x.org">>,
    date |-> ValidDate, subject |-> <<>>, nf |-> k] : k \in {1, 4}}

RECURSIVE LogsOfLen(_)
LogsOfLen(n) ==
  IF n = 0 THEN {<<>>}
  ELSE {Append(cs, c) : cs \in LogsOfLen(n - 1), c \in CommitsAt(n)}

CommitSeqs == UNION {LogsOfLen(n) : n \in 0..MaxCommits}

\* --pretty=format:%H%x09%an%x09%ae%x09%ad%x09%s
FormatLine(c) ==
  Join(SubSeq(<<c.hash, c.authorName, c.authorEmail, c.date, c.subject>>, 1, c.nf), TAB)

\* stdout of git log: format: separates the commits by a newline and puts
\* none after the last one
GitLogOutput(cs) == Join([i \in 1..Len(cs) |-> FormatLine(cs[i])], NL)

\* stdout of git show --patch --unified=0 --no-color --pretty=format: <hash>
GitShowOutput(hash) == <<"diff-of">> \o hash \o <<NL>>

\* ------------------------------------------------------- the file system
Cwd == "/repo"
defaultFilename == "gitlog.parquet"
AbsoluteNames == {"/tmp/out.parquet"}

\* path.resolve(name)
Resolve(name) == IF name \in AbsoluteNames THEN <<name>> ELSE <<Cwd, name>>

\* ---------------------------------------------------- readGitLogWithDiffs
RevParseResultSwallowed(ok) == NoError

\* try { execSync('git rev-parse --git-dir') } catch { throw ... }
RevParseResult(ok) ==
  IF ok THEN NoError ELSE Err("Not in a git repository", <<>>)

MalformedOffByOne(parts) == Len(parts) < 4

\* if (parts.length < 5) throw
Malformed(parts) == Len(parts) < 5

SubjectOfFirstPart(parts) == parts[5]

\* const [hash, authorName, authorEmail, date, ...subjectParts] = parts
\* subjectParts.join('\t')
SubjectOf(parts) == Join(SubSeq(parts, 5, Len(parts)), TAB)

DiffResultUncaught(hash, ok) ==
  [diff |-> Trim(GitShowOutput(hash)), warn |-> <<>>]

\* try { diff = execSync(git show ... hash).trim() }
\* catch { console.warn(...); diff = '' }
DiffResult(hash, ok) ==
  IF ok THEN [diff |-> Trim(GitShowOutput(hash)), warn |-> <<>>]
  ELSE [diff |-> <<>>, warn |-> <<hash>>]

\* the object the map callback returns for one line
RowOf(parts, diff) ==
  [hash |-> parts[1], authorName |-> parts[2], authorEmail |-> parts[3],
   date |-> parts[4], subject |-> SubjectOf(parts), diff |-> diff]

\* ----------------------------------------------------------- toColumnData
\* new Date(str): an unparseable string gives an Invalid Date, not a throw
NewDate(str) ==
  IF str = ValidDate THEN [valid |-> TRUE, epochSeconds |-> 1704067200]
  ELSE [valid |-> FALSE, epochSeconds |-> 0]

Reverse(s) == [i \in 1..Len(s) |-> s[Len(s) + 1 - i]]

ToColumnDataDiffReversed(rs) ==
  << [name |-> "hash", data |-> [i \in 1..Len(rs) |-> rs[i].hash], type |-> "STRING"],
     [name |-> "authorName", data |-> [i \in 1..Len(rs) |-> rs[i].authorName], type |-> "STRING"],
     [name |-> "authorEmail", data |-> [i \in 1..Len(rs) |-> rs[i].authorEmail], type |-> "STRING"],
     [name |-> "date", data |-> [i \in 1..Len(rs) |-> NewDate(rs[i].date)], type |-> "TIMESTAMP"],
     [name |-> "subject", data |-> [i \in 1..Len(rs) |-> rs[i].subject], type |-> "STRING"],
     [name |-> "diff", data |-> Reverse([i \in 1..Len(rs) |-> rs[i].diff]), type |-> "STRING"] >>

ToColumnData(rs) ==
  << [name |-> "hash", data |-> [i \in 1..Len(rs) |-> rs[i].hash], type |-> "STRING"],
     [name |-> "authorName", data |-> [i \in 1..Len(rs) |-> rs[i].authorName], type |-> "STRING"],
     [name |-> "authorEmail", data |-> [i \in 1..Len(rs) |-> rs[i].authorEmail], type |-> "STRING"],
     [name |-> "date", data |-> [i \in 1..Len(rs) |-> NewDate(rs[i].date)], type |-> "TIMESTAMP"],
     [name |-> "subject", data |-> [i \in 1..Len(rs) |-> rs[i].subject], type |-> "STRING"],
     [name |-> "diff", data |-> [i \in 1..Len(rs) |-> rs[i].diff], type |-> "STRING"] >>

\* --------------------------------------------------- writeGitLogParquet
\* the values the caller may pass as opts
OptsDomain ==
  { Undefined, Null, Num("0"), Num("42"),
    Obj(Undefined), Obj(Str("out.parquet")), Obj(Str("/tmp/out.parquet")),
    Obj(Num("0")), Obj(Bool("false")), Obj(Num("42")) }

\* opts = {}: the default applies to undefined only
WithDefault(o) == IF o.t = "undefined" THEN Obj(Undefined) ELSE o

\* the two checks at the head of writeGitLogParquet; reading .filename of
\* null throws a TypeError
OptionsError(o) ==
  IF Truthy(o) /\ Typeof(o) # "object"
    THEN Err("Options must be an object", <<>>)
  ELSE IF o.t = "null"
    THEN Err("TypeError", <<>>)
  ELSE IF Truthy(FilenameOf(o)) /\ Typeof(FilenameOf(o)) # "string"
    THEN Err("Filename must be a string", <<>>)
  ELSE NoError

NoRowsNever(rs) == FALSE

\* if (!rows.length) throw
NoRows(rs) == Len(rs) = 0

\* opts.filename ?? defaultFilename
FilenameArg(o) ==
  IF Nullish(FilenameOf(o)) THEN Str(defaultFilename) ELSE FilenameOf(o)

VARIABLES pc, opts, inRepo, calls, commits, raw, lines, rows, showOk, warnings,
          filename, writerArgs, error, result

vars == <<pc, opts, inRepo, calls, commits, raw, lines, rows, showOk, warnings,
          filename, writerArgs, error, result>>

Init ==
  /\ pc = "start"
  /\ opts \in OptsDomain
  /\ inRepo \in BOOLEAN
  /\ calls = <<>>
  /\ commits = <<>>
  /\ raw = <<>>
  /\ lines = <<>>
  /\ rows = <<>>
  /\ showOk = <<>>
  /\ warnings = <<>>
  /\ filename = <<>>
  /\ writerArgs = <<>>
  /\ error = NoError
  /\ result = NoResult

Call(cmd, arg) == [cmd |-> cmd, arg |-> arg]

ValidateOptions ==
  /\ pc = "start"
  /\ error' = OptionsError(WithDefault(opts))
  /\ pc' = IF error' = NoError THEN "revparse" ELSE "done"
  /\ UNCHANGED <<opts, inRepo, calls, commits, raw, lines, rows, showOk, warnings,
                 filename, writerArgs, result>>

RevParse ==
  /\ pc = "revparse"
  /\ calls' = Append(calls, Call("rev-parse", <<>>))
  /\ error' = RevParseResult(inRepo)
  /\ pc' = IF error' = NoError THEN "log" ELSE "done"
  /\ UNCHANGED <<opts, inRepo, commits, raw, lines, rows, showOk, warnings,
                 filename, writerArgs, result>>

GitLogFails ==
  /\ pc = "log"
  /\ calls' = Append(calls, Call("log", <<>>))
  /\ error' = Err("Failed to read git log", <<>>)
  /\ pc' = "done"
  /\ UNCHANGED <<opts, inRepo, commits, raw, lines, rows, showOk, warnings,
                 filename, writerArgs, result>>

GitLog ==
  /\ pc = "log"
  /\ inRepo
  /\ \E cs \in CommitSeqs :
       /\ commits' = cs
       /\ raw' = GitLogOutput(cs)
       /\ calls' = Append(calls, Call("log", <<>>))
       /\ IF Trim(raw') = <<>>
            THEN lines' = <<>> /\ pc' = "check"
            ELSE lines' = Split(Trim(raw'), NL) /\ pc' = "map"
  /\ UNCHANGED <<opts, inRepo, rows, showOk, warnings, filename, writerArgs, error, result>>

MapLineMalformed ==
  /\ pc = "map"
  /\ LET line == lines[Len(rows) + 1]
         parts == Split(line, TAB)
     IN /\ Malformed(parts)
        /\ error' = Err("Invalid git log format", line)
        /\ pc' = "done"
  /\ UNCHANGED <<opts, inRepo, calls, commits, raw, lines, rows, showOk, warnings,
                 filename, writerArgs, result>>

MapLine ==
  /\ pc = "map"
  /\ LET line == lines[Len(rows) + 1]
         parts == Split(line, TAB)
     IN /\ ~Malformed(parts)
        /\ \E ok \in BOOLEAN :
             LET d == DiffResult(parts[1], ok) IN
               /\ calls' = Append(calls, Call("show", parts[1]))
               /\ showOk' = Append(showOk, ok)
               /\ warnings' = warnings \o d.warn
               /\ rows' = Append(rows, RowOf(parts, d.diff))
        /\ pc' = IF Len(rows') = Len(lines) THEN "check" ELSE "map"
  /\ UNCHANGED <<opts, inRepo, commits, raw, lines, filename, writerArgs, error, result>>

CheckRows ==
  /\ pc = "check"
  /\ IF NoRows(rows)
       THEN /\ error' = Err("No commits found in repository", <<>>)
            /\ pc' = "done"
            /\ UNCHANGED filename
       ELSE LET arg == FilenameArg(WithDefault(opts)) IN
              IF Typeof(arg) # "string"
                THEN /\ error' = Err("TypeError", <<>>)
                     /\ pc' = "done"
                     /\ UNCHANGED filename
                ELSE /\ filename' = Resolve(arg.v)
                     /\ pc' = "write"
                     /\ UNCHANGED error
  /\ UNCHANGED <<opts, inRepo, calls, commits, raw, lines, rows, showOk, warnings,
                 writerArgs, result>>

WriteFile ==
  /\ pc = "write"
  /\ writerArgs' = Append(writerArgs, [filename |-> filename, columnData |-> ToColumnData(rows)])
  /\ calls' = Append(calls, Call("write", <<>>))
  /\ \E ok \in BOOLEAN :
       IF ok
         THEN /\ result' = [commitCount |-> Len(rows), filename |-> filename]
              /\ UNCHANGED error
         ELSE /\ error' = Err("Failed to write parquet file", <<>>)
              /\ UNCHANGED result
  /\ pc' = "done"
  /\ UNCHANGED <<opts, inRepo, commits, raw, lines, rows, showOk, warnings, filename>>

Next ==
  \/ ValidateOptions
  \/ RevParse
  \/ GitLogFails
  \/ GitLog
  \/ MapLineMalformed
  \/ MapLine
  \/ CheckRows
  \/ WriteFile

Spec == Init /\ [][Next]_vars

\* ------------------------------------------------------------ properties
ShowCalls == SelectSeq(calls, LAMBDA c : c.cmd = "show")
LogCalls == SelectSeq(calls, LAMBDA c : c.cmd = "log")

\* the log command has run and returned its output
LogEnumerated == LogCalls # <<>> /\ error.kind # "Failed to read git log"

\* the data array of the column called name in one writer invocation
Col(w, name) ==
  (CHOOSE c \in {w.columnData[k] : k \in 1..Len(w.columnData)} : c.name = name).data

ColumnNames == {"hash", "authorName", "authorEmail", "date", "subject", "diff"}

\* an options value of the documented shape {filename?: string}
ValidOptions(o) ==
  \/ o.t = "undefined"
  \/ (o.t = "object" /\ FilenameOf(o).t \in {"undefined", "string"})

Succeeded == pc = "done" /\ result # NoResult

\* what the i-th diff retrieval produced
DiffOutcome(i) ==
  IF showOk[i] THEN Trim(GitShowOutput(commits[i].hash)) ELSE <<>>

\* C1: every log of n >= 1 five-field commits (subject possibly empty) is
\* exported: the call succeeds with commitCount = n and six columns of
\* length n (options of the documented shape, writer not failing).
C1_AllCommitsExported ==
  ( /\ pc = "done"
    /\ LogEnumerated
    /\ Len(commits) >= 1
    /\ \A i \in 1..Len(commits) : commits[i].nf = 5
    /\ ValidOptions(opts)
    /\ error.kind # "Failed to write parquet file" )
  => /\ result.commitCount = Len(commits)
     /\ Len(writerArgs) = 1
     /\ \A n \in ColumnNames : Len(Col(writerArgs[1], n)) = Len(commits)

\* C2: rows and columns keep the enumeration order: index i of every column
\* is the i-th enumerated commit, the i-th diff retrieval is issued for the
\* i-th hash and its outcome is diff[i]; nothing is reordered or dropped.
C2_OrderPreserved ==
  /\ Len(ShowCalls) = Len(rows)
  /\ \A i \in 1..Len(rows) :
       /\ rows[i].hash = commits[i].hash
       /\ rows[i].authorName = commits[i].authorName
       /\ rows[i].authorEmail = commits[i].authorEmail
       /\ rows[i].date = commits[i].date
       /\ rows[i].subject = commits[i].subject
       /\ ShowCalls[i].arg = commits[i].hash
       /\ rows[i].diff = DiffOutcome(i)
  /\ \A k \in 1..Len(writerArgs) :
       /\ \A n \in ColumnNames : Len(Col(writerArgs[k], n)) = Len(commits)
       /\ \A i \in 1..Len(commits) :
            /\ Col(writerArgs[k], "hash")[i] = commits[i].hash
            /\ Col(writerArgs[k], "authorName")[i] = commits[i].authorName
            /\ Col(writerArgs[k], "authorEmail")[i] = commits[i].authorEmail
            /\ Col(writerArgs[k], "date")[i] = NewDate(commits[i].date)
            /\ Col(writerArgs[k], "subject")[i] = commits[i].subject
            /\ Col(writerArgs[k], "diff")[i] = DiffOutcome(i)

C2_Witness ==
  /\ Succeeded
  /\ Len(commits) = 2
  /\ commits[1].subject # commits[2].subject
  /\ Col(writerArgs[1], "diff")[1] # Col(writerArgs[1], "diff")[2]

FirstShort ==
  LET short == {i \in 1..Len(commits) : commits[i].nf < 5} IN
    IF short = {} THEN 0 ELSE CHOOSE i \in short : \A j \in short : i <= j

\* C4: a log line with fewer than five fields makes the export fail with
\* 'Invalid git log format' naming that line; the line is not skipped and
\* the writer is never invoked.
C4_MalformedLineAborts ==
  /\ (LogEnumerated /\ FirstShort # 0) =>
       /\ writerArgs = <<>>
       /\ result = NoResult
       /\ Len(rows) < FirstShort
       /\ pc \in {"map", "done"}
       /\ pc = "done" => error = Err("Invalid git log format", FormatLine(commits[FirstShort]))
  /\ writerArgs # <<>> => \A i \in 1..Len(commits) : commits[i].nf = 5

C4_Witness ==
  /\ pc = "done"
  /\ error.kind = "Invalid git log format"
  /\ FirstShort = 2
  /\ Len(rows) = 1

\* C5: a log of zero commits makes the export fail with 'No commits found
\* in repository'; the writer is never invoked and never sees zero rows.
C5_EmptyRepositoryFails ==
  /\ (LogEnumerated /\ commits = <<>>) =>
       /\ writerArgs = <<>>
       /\ result = NoResult
       /\ pc \in {"check", "done"}
       /\ pc = "done" => error = Err("No commits found in repository", <<>>)
  /\ \A k \in 1..Len(writerArgs) :
       \A n \in ColumnNames : Len(Col(writerArgs[k], n)) >= 1

C5_Witness ==
  /\ pc = "done"
  /\ commits = <<>>
  /\ error.kind = "No commits found in repository"
  /\ Len(LogCalls) = 1

\* C6: a failing diff retrieval does not stop the export: the row is kept
\* with the empty string as its diff and one warning for its hash, the other
\* rows keep their own diffs and fields, the later retrievals still run, and
\* a finished export counts every enumerated commit.
C6_DiffFailureDegrades ==
  /\ Len(showOk) = Len(rows)
  /\ Len(ShowCalls) = Len(rows)
  /\ \A i \in 1..Len(rows) :
       /\ ~showOk[i] => rows[i].diff = <<>>
       /\ showOk[i] => rows[i].diff = Trim(GitShowOutput(commits[i].hash))
       /\ rows[i].hash = commits[i].hash
       /\ rows[i].subject = commits[i].subject
  /\ warnings = SelectSeq([i \in 1..Len(rows) |-> IF showOk[i] THEN <<>> ELSE rows[i].hash],
                          LAMBDA h : h # <<>>)
  /\ pc \in {"check", "write"} => Len(rows) = Len(commits)
  /\ result # NoResult =>
       /\ result.commitCount = Len(commits)
       /\ Len(ShowCalls) = Len(commits)
       /\ \A i \in 1..Len(commits) :
            Col(writerArgs[1], "diff")[i] = DiffOutcome(i)

C6_Witness ==
  /\ Succeeded
  /\ result.commitCount = 2
  /\ showOk = <<FALSE, TRUE>>
  /\ warnings = <<commits[1].hash>>
  /\ Col(writerArgs[1], "diff")[1] = <<>>
  /\ Col(writerArgs[1], "diff")[2] # <<>>

\* C7: outside a repository the export ends with 'Not in a git repository'
\* and the repository check is the only work done: no log enumeration, no
\* diff retrieval and no writer invocation.
C7_NotARepositoryFirst ==
  /\ (~inRepo /\ pc \notin {"start", "revparse"}) =>
       /\ pc = "done"
       /\ \/ error = Err("Not in a git repository", <<>>)
          \/ (calls = <<>> /\ OptionsError(WithDefault(opts)) # NoError)
       /\ LogCalls = <<>>
       /\ ShowCalls = <<>>
       /\ writerArgs = <<>>
       /\ result = NoResult
  /\ error.kind = "Not in a git repository" =>
       ~inRepo /\ calls = <<Call("rev-parse", <<>>)>>

C7_Witness ==
  /\ pc = "done"
  /\ ~inRepo
  /\ error.kind = "Not in a git repository"
  /\ calls = <<Call("rev-parse", <<>>)>>

\* C8: a commit whose date string does not parse makes the export fail: the
\* writer is never invoked, so it never receives an invalid timestamp.
C8_UnparseableDateIsFatal ==
  /\ (LogEnumerated /\ \E i \in 1..Len(commits) :
        commits[i].nf = 5 /\ ~NewDate(commits[i].date).valid) =>
       writerArgs = <<>> /\ result = NoResult
  /\ \A k \in 1..Len(writerArgs) :
       \A i \in 1..Len(Col(writerArgs[k], "date")) : Col(writerArgs[k], "date")[i].valid

\* C9: every writer invocation carries the file-level key/value pairs
\* repo_name, branch, head and remote next to the six columns.
C9_WriterReceivesRepoMetadata ==
  \A k \in 1..Len(writerArgs) :
    /\ "kvMetadata" \in DOMAIN writerArgs[k]
    /\ {writerArgs[k].kvMetadata[j].key : j \in 1..Len(writerArgs[k].kvMetadata)}
         = {"repo_name", "branch", "head", "remote"}

\* C10: an options value that is not an object, or whose filename is present
\* and not a string, is rejected with 'Options must be an object' or
\* 'Filename must be a string' before any command or the writer runs.
C10_InvalidOptionsRejectedFirst ==
  ~ValidOptions(opts) =>
    \/ pc = "start"
    \/ /\ pc = "done"
       /\ error.kind \in {"Options must be an object", "Filename must be a string"}
       /\ calls = <<>>
       /\ writerArgs = <<>>

====
